---- MODULE Spec2Model ----
(***************************************************************************)
(* Remote Controller Network (RCN): the node's send ring buffer and packet *)
(* helpers (rcn_common.h), the host (rcn_host.h) and the controller        *)
(* (rcn_controller.h), as state machines driven by their callers.          *)
(*                                                                         *)
(* host and ctrl hold the fields of one RCN_Host and one RCN_Controller    *)
(* object, each with its embedded RCN_Node.  Three kinds of field are      *)
(* bookkeeping of the verification and are never read by the modelled      *)
(* code: node.seq / node.oops / node.sent / node.log, the callback log     *)
(* calls, and the variables ev (the operation performed last, with its     *)
(* inputs) and pv (the operation before it).  air holds the frames sent    *)
(* by one of the two and not yet received by the other, where a            *)
(* specification connects them.                                            *)
(***************************************************************************)
EXTENDS Integers, Sequences, FiniteSets, TLC

VARIABLES host, ctrl, ev, pv, air

vars == <<host, ctrl, ev, pv, air>>

(***************************************************************************)
(* Program constants                                                       *)
(***************************************************************************)
\* rcn_common.h:197
SEND_BUF_SIZE == 16
\* RF12.h header bits, used at rcn_common.h:260,271,306,307
RF12_HDR_DST == 64
RF12_HDR_MASK == 31
\* rcn_controller.h:15
remote_host == 1
\* Build-time table sizes: "set this to the required number of channels".
\* The host is built with the default of rcn_host.h:10, the controller
\* (rcn_controller.h:10) with two.
RCN_HOST_MAX_CHANNELS == 1
RCN_CTRL_MAX_CHANNELS == 2
\* sizeof(Payload), rcn_common.h:176-185: two bytes
PayloadSize == 2

(***************************************************************************)
(* Bounds of the model                                                     *)
(***************************************************************************)
\* prepare_packet calls per node in the general specifications
MaxEnq == 2
\* add_channel calls per table in the general specifications
MaxAdded == 1
\* prepare_packet calls per node when host and controller run side by side
MaxPairEnq == 1
\* prepare_packet calls of the controller in the wake-up specification
MaxWakeEnq == 4
\* prepare_packet calls of the host in the send-queue specification
MaxQueueEnq == 20
\* prepare_packet calls of the controller when the two are connected
MaxConvEnq == 2
\* prepare_packet calls per node in the packet-kind specification
MaxKindEnq == 2
\* prepare_packet calls of the host in the queue-overrun specification
MaxFloodEnq == 18

HostChannels == 0 .. RCN_HOST_MAX_CHANNELS - 1
CtrlChannels == 0 .. RCN_CTRL_MAX_CHANNELS - 1
Slots == 0 .. SEND_BUF_SIZE - 1

(***************************************************************************)
(* Integer conversions of the C++ types                                    *)
(***************************************************************************)
\* conversion of an int to uint8_t
U8(x) == x % 256
\* conversion of a byte pattern to int8_t
S8(x) == IF x % 256 >= 128 THEN (x % 256) - 256 ELSE x % 256

\* int is 32 bits wide.
IntMax == 2147483647
IntMin == (-IntMax) - 1

\* Whether a + b is beyond the range of int.  The addition is then
\* undefined: the program's behaviour depends on the build.
int_overflow(a, b) ==
    \/ a > 0 /\ b > IntMax - a
    \/ a < 0 /\ b < IntMin - a

\* a + b with a sum beyond the range of int wrapped around (two's
\* complement).  Written so that no intermediate value leaves the range.
int_add(a, b) ==
    IF a > 0 /\ b > IntMax - a
    THEN ((a - IntMax) - 1) + ((b - IntMax) - 1)
    ELSE IF a < 0 /\ b < IntMin - a
    THEN ((a + IntMax) + 1) + ((b + IntMax) + 1)
    ELSE a + b

\* LIMIT with the upper bound forgotten.
LIMIT_lower_only(min, val, max) == IF min > val THEN min ELSE val

\* #define LIMIT(min, val, max) (min > val ? min : (max < val) ? max : val)
LIMIT(min, val, max) == IF min > val THEN min ELSE IF max < val THEN max ELSE val

(***************************************************************************)
(* RCN_Node: Payload, Packet, the ring buffer                              *)
(***************************************************************************)
\* Payload with a channel field of six bits.
Payload_six_bit_channel(relative, channel, value) ==
    << (relative % 2) * 128 + (channel % 64), U8(value) >>

\* The two payload bytes of class Payload: channel in bits 6..0 and relative
\* in bit 7 of the first byte, the level byte (uint8_t / int8_t union) second.
Payload(relative, channel, value) ==
    << (relative % 2) * 128 + (channel % 128), U8(value) >>

\* class Packet: header byte and payload bytes; id is the ordinal of the
\* prepare_packet call that produced it (bookkeeping).
Packet(hdr, d, id) == [hdr |-> hdr, b |-> d, id |-> id]

\* Content of a ring-buffer slot that was never written.
NoPacket == Packet(0, <<0, 0>>, 0)

\* RCN_Node constructor
RCN_Node(rf12_node) ==
    [ send_buf      |-> [i \in Slots |-> NoPacket],
      send_buf_next |-> 0,
      send_buf_done |-> 0,
      rf12_node     |-> rf12_node,
      seq  |-> 0,      \* prepare_packet calls so far
      oops |-> 0,      \* "Oops! Overrunning send_buf!" messages so far
      sent |-> <<>>,   \* ids handed to rf12_sendStart so far, in order
      log  |-> <<>> ]  \* enqueues and transmissions of the current operation

\* prepare_packet that wraps the producer index at half the buffer.
prepare_packet_half_ring(n) ==
    LET nx == (n.send_buf_next + 1) % (SEND_BUF_SIZE \div 2)
    IN  [n EXCEPT !.send_buf_next = nx,
                  !.seq = @ + 1,
                  !.oops = IF nx = n.send_buf_done THEN @ + 1 ELSE @]

\* prepare_packet: advances the producer index; the caller fills the slot
\* the index pointed at before the call.
prepare_packet(n) ==
    LET nx == (n.send_buf_next + 1) % SEND_BUF_SIZE
    IN  [n EXCEPT !.send_buf_next = nx,
                  !.seq = @ + 1,
                  !.oops = IF nx = n.send_buf_done THEN @ + 1 ELSE @]

\* The writes through the pointer prepare_packet returned.
fill_packet(n, hdr, relative, channel, value) ==
    LET p == n.send_buf_next
        m == prepare_packet(n)
        pkt == Packet(hdr, Payload(relative, channel, value), m.seq)
    IN  [m EXCEPT !.send_buf[p] = pkt,
                  !.log = Append(@, [kind |-> "enq", pkt |-> pkt])]

send_status_update(n, channel, level) ==
    fill_packet(n, n.rf12_node % (RF12_HDR_MASK + 1), 0, channel, level)

send_update_request_abs(n, h, channel, level) ==
    fill_packet(n, RF12_HDR_DST + (h % (RF12_HDR_MASK + 1)), 0, channel, level)

send_update_request_rel(n, h, channel, adj) ==
    fill_packet(n, RF12_HDR_DST + (h % (RF12_HDR_MASK + 1)), 1, channel, adj)

send_status_request(n, h, channel) ==
    send_update_request_rel(n, h, channel, 0)

(***************************************************************************)
(* RecvPacket                                                              *)
(***************************************************************************)
RecvPacket(hdr, data) == [h |-> hdr, d |-> data]
bcast(p) == (p.h \div RF12_HDR_DST) % 2 = 0
node(p) == p.h % (RF12_HDR_MASK + 1)
channel(p) == p.d[1] % 128
relative(p) == p.d[1] \div 128 # 0
abs_level(p) == p.d[2]
rel_level(p) == S8(p.d[2])

(***************************************************************************)
(* The transport as the node sees it in one send_and_recv call:            *)
(* rf12_canSend() and rf12_recvDone() with rf12_crc, rf12_hdr, rf12_len    *)
(* and rf12_data.                                                          *)
(***************************************************************************)
Frame(avail, crc, hdr, data) ==
    [avail |-> avail, crc |-> crc, hdr |-> hdr, len |-> Len(data), data |-> data]

NoFrame == Frame(FALSE, 0, 0, <<>>)

\* send_and_recv that leaves the consumer index where it is.
send_and_recv_resend(n, canSend, f) ==
    LET sending == n.send_buf_next # n.send_buf_done /\ canSend
        p == n.send_buf[n.send_buf_done]
        m == IF sending
             THEN [n EXCEPT !.sent = Append(@, p.id),
                            !.log = Append(@, [kind |-> "tx", pkt |-> p])]
             ELSE n
        ok == f.avail /\ f.crc = 0 /\ f.len = PayloadSize
    IN  [node |-> m, ok |-> ok,
         recvd |-> IF ok THEN RecvPacket(f.hdr, f.data) ELSE RecvPacket(0, <<0, 0>>)]

\* send_and_recv that does not look at rf12_crc.
send_and_recv_any_crc(n, canSend, f) ==
    LET sending == n.send_buf_next # n.send_buf_done /\ canSend
        p == n.send_buf[n.send_buf_done]
        m == IF sending
             THEN [n EXCEPT !.send_buf_done = (@ + 1) % SEND_BUF_SIZE,
                            !.sent = Append(@, p.id),
                            !.log = Append(@, [kind |-> "tx", pkt |-> p])]
             ELSE n
        ok == f.avail /\ f.len = PayloadSize
    IN  [node |-> m, ok |-> ok,
         recvd |-> IF ok THEN RecvPacket(f.hdr, f.data) ELSE RecvPacket(0, <<0, 0>>)]

\* send_and_recv: [node, ok, recvd]
send_and_recv(n, canSend, f) ==
    LET sending == n.send_buf_next # n.send_buf_done /\ canSend
        p == n.send_buf[n.send_buf_done]
        m == IF sending
             THEN [n EXCEPT !.send_buf_done = (@ + 1) % SEND_BUF_SIZE,
                            !.sent = Append(@, p.id),
                            !.log = Append(@, [kind |-> "tx", pkt |-> p])]
             ELSE n
        ok == f.avail /\ f.crc = 0 /\ f.len = PayloadSize
    IN  [node |-> m, ok |-> ok,
         recvd |-> IF ok THEN RecvPacket(f.hdr, f.data) ELSE RecvPacket(0, <<0, 0>>)]

\* The packets enqueued / transmitted by the last operation on a node.
EnqLog(n) == SelectSeq(n.log, LAMBDA e : e.kind = "enq")
TxLog(n) == SelectSeq(n.log, LAMBDA e : e.kind = "tx")

(***************************************************************************)
(* RCN_Host                                                                *)
(***************************************************************************)
\* The update_filter callbacks the host is constructed with.
Filters == {"accept", "reject", "top"}

\* update_filter: "accept" adopts new_level, "reject" returns old_level (both
\* as the comment at rcn_host.h:26-29 describes), "top" always returns 255.
handler_fn(kind, chan, range, data, old_level, new_level) ==
    CASE kind = "accept" -> new_level
      [] kind = "reject" -> old_level
      [] OTHER -> 255

\* What a build makes of an addition a + b that overflows, and of the
\* LIMIT(0, a + b, max) that follows it:
\*   "wrap"     the sum wraps around and LIMIT compares the wrapped value;
\*   "exact"    the comparisons of LIMIT are decided for the sum that does
\*              not fit (optimising builds assume no overflow happens);
\*   "low_byte" both comparisons of LIMIT are decided as false and the
\*              low byte of the wrapped sum is converted to uint8_t;
\*   "trap"     the addition aborts the program (builds that trap on
\*              signed overflow).
Overflows == {"wrap", "exact", "low_byte", "trap"}

\* The uint8_t a build that does not trap obtains from LIMIT(0, a + b, max)
\* when a + b overflows.
overflowed_level(a, b, max, ub) ==
    IF ub = "wrap" THEN U8(LIMIT(0, int_add(a, b), max))
    ELSE IF ub = "exact" THEN (IF b > 0 THEN max ELSE 0)
    ELSE U8(int_add(a, b))

\* Values an uninitialised level[] entry may hold: whatever byte the
\* storage of the object held before the constructor ran.
UninitBytes == 0 .. 255

\* RCN_Host constructor: num_channels is 0, range/level/data are not
\* initialised (range and data are written before they are read).
RCN_Host(rf12_node, handler, garbage) ==
    [ node |-> RCN_Node(rf12_node),
      handler |-> handler,
      num_channels |-> 0,
      range |-> [c \in HostChannels |-> 0],
      level |-> garbage,
      data  |-> [c \in HostChannels |-> 0],
      calls |-> <<>>,    \* filter invocations of the current operation
      aborted |-> FALSE ]    \* the program was aborted inside a call

\* set that broadcasts only when the level changed.
RCN_Host_set_quiet(h, chan, value) ==
    LET new == LIMIT(0, value, h.range[chan])
        ret == handler_fn(h.handler, chan, h.range[chan], h.data[chan],
                          h.level[chan], new)
        h1 == [h EXCEPT !.level[chan] = ret,
                        !.calls = Append(@, [channel |-> chan,
                                             range |-> h.range[chan],
                                             data |-> h.data[chan],
                                             old_level |-> h.level[chan],
                                             new_level |-> new,
                                             ret |-> ret])]
    IN  IF ret = h.level[chan] THEN h1
        ELSE [h1 EXCEPT !.node = send_status_update(h1.node, chan, h1.level[chan])]

\* The part of set after LIMIT: the filter is given the old level and the
\* proposed one, its result is stored and broadcast.
RCN_Host_store(h, chan, new) ==
    LET ret == handler_fn(h.handler, chan, h.range[chan], h.data[chan],
                          h.level[chan], new)
        h1 == [h EXCEPT !.level[chan] = ret,
                        !.calls = Append(@, [channel |-> chan,
                                             range |-> h.range[chan],
                                             data |-> h.data[chan],
                                             old_level |-> h.level[chan],
                                             new_level |-> new,
                                             ret |-> ret])]
    IN  [h1 EXCEPT !.node = send_status_update(h1.node, chan, h1.level[chan])]

RCN_Host_set(h, chan, value) ==
    RCN_Host_store(h, chan, LIMIT(0, value, h.range[chan]))

\* adjust: int value = level[channel] + delta; return set(channel, value).
\* When the addition overflows, ub is what the build makes of it.
RCN_Host_adjust(h, chan, delta, ub) ==
    IF ~int_overflow(h.level[chan], delta)
    THEN RCN_Host_set(h, chan, h.level[chan] + delta)
    ELSE IF ub = "trap"
    THEN [h EXCEPT !.aborted = TRUE]
    ELSE RCN_Host_store(h, chan,
             overflowed_level(h.level[chan], delta, h.range[chan], ub))

RCN_Host_add_channel(h, r, l, d) ==
    LET chan == h.num_channels
        h1 == [h EXCEPT !.num_channels = @ + 1,
                        !.range[chan] = r,
                        !.data[chan] = d]
    IN  RCN_Host_set(h1, chan, l)

\* run that compares the channel with the table size instead of the number
\* of channels added.
RCN_Host_run_capacity(h, canSend, f) ==
    LET r == send_and_recv(h.node, canSend, f)
        h1 == [h EXCEPT !.node = r.node]
        p == r.recvd
    IN  IF ~r.ok THEN h1
        ELSE IF channel(p) >= RCN_HOST_MAX_CHANNELS THEN h1
        ELSE IF relative(p) THEN RCN_Host_adjust(h1, channel(p), rel_level(p), "wrap")
        ELSE RCN_Host_set(h1, channel(p), abs_level(p))

RCN_Host_run(h, canSend, f) ==
    LET r == send_and_recv(h.node, canSend, f)
        h1 == [h EXCEPT !.node = r.node]
        p == r.recvd
    IN  IF ~r.ok THEN h1
        ELSE IF channel(p) >= h1.num_channels THEN h1
        ELSE IF relative(p) THEN RCN_Host_adjust(h1, channel(p), rel_level(p), "wrap")
        ELSE RCN_Host_set(h1, channel(p), abs_level(p))

\* Start of an operation on the host: the per-operation logs are emptied.
HostBegin == [host EXCEPT !.calls = <<>>, !.node.log = <<>>]

\* The operation performed, its channel and value arguments, and the frame
\* rf12_recvDone offered (run only).
Event(op, chan, value, f) ==
    [op |-> op, chan |-> chan, value |-> value, frame |-> f]

HostAddChannel(r, l, d) ==
    /\ ~host.aborted
    /\ host.num_channels < RCN_HOST_MAX_CHANNELS
    /\ host' = RCN_Host_add_channel(HostBegin, r, l, d)
    /\ ev' = Event("h_add", host.num_channels, l, NoFrame)
    /\ UNCHANGED ctrl

HostSet(chan, value) ==
    /\ ~host.aborted
    /\ chan < host.num_channels
    /\ host' = RCN_Host_set(HostBegin, chan, value)
    /\ ev' = Event("h_set", chan, value, NoFrame)
    /\ UNCHANGED ctrl

HostAdjust(chan, delta) ==
    /\ ~host.aborted
    /\ chan < host.num_channels
    /\ \E ub \in Overflows : host' = RCN_Host_adjust(HostBegin, chan, delta, ub)
    /\ ev' = Event("h_adjust", chan, delta, NoFrame)
    /\ UNCHANGED ctrl

HostRun(canSend, f) ==
    /\ ~host.aborted
    /\ host' = RCN_Host_run(HostBegin, canSend, f)
    /\ ev' = Event("h_run", 0, 0, f)
    /\ UNCHANGED ctrl

(***************************************************************************)
(* RCN_Controller                                                          *)
(***************************************************************************)
\* RCN_Controller constructor: n_channels is 0; range/level/data are
\* written by add_channel before they are read.
RCN_Controller(rf12_node) ==
    [ node |-> RCN_Node(rf12_node),
      n_channels |-> 0,
      range |-> [c \in CtrlChannels |-> 0],
      level |-> [c \in CtrlChannels |-> 0],
      data  |-> [c \in CtrlChannels |-> 0],
      calls |-> <<>>,    \* notifier invocations of the current operation
      aborted |-> FALSE ]    \* the program was aborted inside a call

\* update that notifies only when the level changes.
RCN_Controller_update_on_change(c, chan, value) ==
    LET v == U8(LIMIT(0, value, c.range[chan]))
    IN  IF v = c.level[chan] THEN c
        ELSE [c EXCEPT !.calls = Append(@, [channel |-> chan,
                                            range |-> c.range[chan],
                                            data |-> c.data[chan],
                                            old_level |-> c.level[chan],
                                            new_level |-> v]),
                       !.level[chan] = v]

\* The part of update after LIMIT: the notifier is given the old and the
\* new level, the new level is stored.
RCN_Controller_store(c, chan, v) ==
    [c EXCEPT !.calls = Append(@, [channel |-> chan,
                                   range |-> c.range[chan],
                                   data |-> c.data[chan],
                                   old_level |-> c.level[chan],
                                   new_level |-> v]),
              !.level[chan] = v]

\* update: clamps, notifies with the old and the new level, stores.
RCN_Controller_update(c, chan, value) ==
    RCN_Controller_store(c, chan, U8(LIMIT(0, value, c.range[chan])))

\* sync that sends nothing.
RCN_Controller_sync_silent(c, chan) == c

\* sync that broadcasts the status request instead of directing it.
RCN_Controller_sync_broadcast(c, chan) ==
    [c EXCEPT !.node = fill_packet(c.node, remote_host, 1, chan, 0)]

RCN_Controller_sync(c, chan) ==
    [c EXCEPT !.node = send_status_request(c.node, remote_host, chan)]

RCN_Controller_add_channel(c, r, l, d) ==
    LET chan == c.n_channels
        c1 == [c EXCEPT !.n_channels = @ + 1,
                        !.range[chan] = r,
                        !.level[chan] = l,
                        !.data[chan] = d]
    IN  RCN_Controller_sync(RCN_Controller_update(c1, chan, l), chan)

RCN_Controller_set(c, chan, value) ==
    LET c1 == RCN_Controller_update(c, chan, value)
        ret == c1.level[chan]
    IN  [c1 EXCEPT !.node = send_update_request_abs(c1.node, remote_host, chan, ret)]

\* update(channel, level[channel] + delta) as adjust calls it.  When the
\* addition overflows, ub is what the build (one that does not trap) makes
\* of it.
RCN_Controller_update_sum(c, chan, delta, ub) ==
    IF ~int_overflow(c.level[chan], delta)
    THEN RCN_Controller_update(c, chan, c.level[chan] + delta)
    ELSE RCN_Controller_store(c, chan,
             overflowed_level(c.level[chan], delta, c.range[chan], ub))

\* adjust: the addition is evaluated before update is entered, so a build
\* that traps on the overflow aborts with nothing notified, stored or sent.
RCN_Controller_adjust(c, chan, delta, ub) ==
    LET d == S8(LIMIT(-128, delta, 127))
        c1 == RCN_Controller_update_sum(c, chan, delta, ub)
    IN  IF int_overflow(c.level[chan], delta) /\ ub = "trap"
        THEN [c EXCEPT !.aborted = TRUE]
        ELSE IF d # 0
        THEN [c1 EXCEPT !.node = send_update_request_rel(c1.node, remote_host, chan, d)]
        ELSE c1

RCN_Controller_run(c, canSend, f) ==
    LET r == send_and_recv(c.node, canSend, f)
        c1 == [c EXCEPT !.node = r.node]
        p == r.recvd
    IN  IF ~r.ok THEN c1
        ELSE IF channel(p) >= c1.n_channels THEN c1
        ELSE IF relative(p) THEN c1
        ELSE RCN_Controller_update(c1, channel(p), abs_level(p))

\* RCN_Node::wake_up is not part of rcn_common.h; the power-state transition
\* is delegated to the transport and leaves the node's queue alone.
RCN_Node_wake_up(n) == n

RECURSIVE reset_levels(_, _)
\* for (size_t i = 0; i < n_channels; i++) update(i, 0);
reset_levels(c, i) ==
    IF i < c.n_channels
    THEN reset_levels(RCN_Controller_update(c, i, 0), i + 1)
    ELSE c

\* wake_up that resets the cache whatever its argument.
RCN_Controller_wake_up_always(c, reset) ==
    LET c1 == [c EXCEPT !.node = RCN_Node_wake_up(c.node)]
    IN  reset_levels(c1, 0)

RCN_Controller_wake_up(c, reset) ==
    LET c1 == [c EXCEPT !.node = RCN_Node_wake_up(c.node)]
    IN  IF reset THEN reset_levels(c1, 0) ELSE c1

\* Start of an operation on the controller: the per-operation logs are emptied.
CtrlBegin == [ctrl EXCEPT !.calls = <<>>, !.node.log = <<>>]

CtrlAddChannel(r, l, d) ==
    /\ ~ctrl.aborted
    /\ ctrl.n_channels < RCN_CTRL_MAX_CHANNELS
    /\ ctrl' = RCN_Controller_add_channel(CtrlBegin, r, l, d)
    /\ ev' = Event("c_add", ctrl.n_channels, l, NoFrame)
    /\ UNCHANGED host

CtrlSync(chan) ==
    /\ ~ctrl.aborted
    /\ ctrl' = RCN_Controller_sync(CtrlBegin, chan)
    /\ ev' = Event("c_sync", chan, 0, NoFrame)
    /\ UNCHANGED host

CtrlSet(chan, value) ==
    /\ ~ctrl.aborted
    /\ chan < ctrl.n_channels
    /\ ctrl' = RCN_Controller_set(CtrlBegin, chan, value)
    /\ ev' = Event("c_set", chan, value, NoFrame)
    /\ UNCHANGED host

CtrlAdjust(chan, delta) ==
    /\ ~ctrl.aborted
    /\ chan < ctrl.n_channels
    /\ \E ub \in Overflows : ctrl' = RCN_Controller_adjust(CtrlBegin, chan, delta, ub)
    /\ ev' = Event("c_adjust", chan, delta, NoFrame)
    /\ UNCHANGED host

CtrlRun(canSend, f) ==
    /\ ~ctrl.aborted
    /\ ctrl' = RCN_Controller_run(CtrlBegin, canSend, f)
    /\ ev' = Event("c_run", 0, 0, f)
    /\ UNCHANGED host

CtrlWakeUp(reset) ==
    /\ ~ctrl.aborted
    /\ ctrl' = RCN_Controller_wake_up(CtrlBegin, reset)
    /\ ev' = Event("c_wake", 0, IF reset THEN 1 ELSE 0, NoFrame)
    /\ UNCHANGED host

(***************************************************************************)
(* Inputs                                                                  *)
(***************************************************************************)
\* Node ids: the host is the controller's remote_host; the controller and
\* one more node of the group have the next two ids.
HostNodeId == remote_host
CtrlNodeId == remote_host + 1
OtherNodeId == remote_host + 2

Ranges == {3, 255}
InitLevels == {0, 9}
AuxData == {7}
SetValues == {-1, 2, 300}
Deltas == {-1, 0, 300, IntMax}
CtrlDeltas == {IntMin, -200, 0, 1, 200, IntMax}
SyncChannels == {0, 130}

\* Received frames with a good CRC and two payload bytes: most with the
\* header `usual`, three with the header `odd`.  Channels 2 and 127 are
\* beyond both tables; value 255 is -1 when the relative flag is set.
GoodFrames(usual, odd) ==
    { Frame(TRUE, 0, usual, Payload(0, 0, v)) : v \in {2, 255} }
    \cup { Frame(TRUE, 0, usual, Payload(1, 0, v)) : v \in {0, 2, 255} }
    \cup { Frame(TRUE, 0, usual, Payload(0, 1, 2)),
           Frame(TRUE, 0, usual, Payload(1, 1, 255)),
           Frame(TRUE, 0, usual, Payload(0, 2, 2)),
           Frame(TRUE, 0, usual, Payload(1, 127, 0)),
           Frame(TRUE, 0, odd, Payload(0, 0, 2)),
           Frame(TRUE, 0, odd, Payload(1, 0, 2)),
           Frame(TRUE, 0, odd, Payload(0, 2, 2)) }

\* Frames rf12_recvDone reports with a CRC mismatch or another length.
BadFrames(hdr) ==
    { Frame(TRUE, 1, hdr, Payload(0, 0, 2)),
      Frame(TRUE, 0, hdr, <<0>>),
      Frame(TRUE, 0, hdr, <<0, 2, 0>>) }

\* What the host's radio delivers: packets directed to it, and broadcasts
\* of another node of the group.
HostFrames ==
    {NoFrame} \cup BadFrames(RF12_HDR_DST + HostNodeId)
              \cup GoodFrames(RF12_HDR_DST + HostNodeId, OtherNodeId)

\* What the controller's radio delivers: broadcasts of the host, and
\* packets directed to the controller's own node id.
CtrlFrames ==
    {NoFrame} \cup BadFrames(HostNodeId)
              \cup GoodFrames(HostNodeId, RF12_HDR_DST + CtrlNodeId)

\* pv: the operation before the last one, with its logs, when it was a
\* set of the controller; the initial value otherwise.
NoSnapshot == [ev |-> Event("init", 0, 0, NoFrame), calls |-> <<>>, log |-> <<>>]
Snapshot ==
    IF ev.op = "c_set"
    THEN [ev |-> ev, calls |-> ctrl.calls, log |-> ctrl.node.log]
    ELSE NoSnapshot

\* air: the frames on their way to the host and to the controller, oldest
\* first; reset is bookkeeping: the controller's cache was reset by
\* wake_up(true) and the controller has received no status update for
\* channel 0 since.
NoAir == [to_host |-> <<>>, to_ctrl |-> <<>>, reset |-> FALSE]

\* After construction of a host with any of the filters.
InitHost ==
    /\ \E k \in Filters, g \in UninitBytes :
          host = RCN_Host(HostNodeId, k, [c \in HostChannels |-> g])
    /\ ctrl = RCN_Controller(CtrlNodeId)
    /\ ev = Event("init", 0, 0, NoFrame)
    /\ pv = NoSnapshot
    /\ air = NoAir

\* After construction of a host with the adopting filter, on any storage,
\* and of a controller.
InitNet ==
    /\ \E g \in UninitBytes :
          host = RCN_Host(HostNodeId, "accept", [c \in HostChannels |-> g])
    /\ ctrl = RCN_Controller(CtrlNodeId)
    /\ ev = Event("init", 0, 0, NoFrame)
    /\ pv = NoSnapshot
    /\ air = NoAir

\* No RCN_Host object has been constructed: host stands for a bare RCN_Node
\* with the host's node id and has no channel table.
NoHost == [node |-> RCN_Node(HostNodeId)]

\* After construction of a controller, on a device without a host.
InitCtrl ==
    /\ host = NoHost
    /\ ctrl = RCN_Controller(CtrlNodeId)
    /\ ev = Event("init", 0, 0, NoFrame)
    /\ pv = NoSnapshot
    /\ air = NoAir

\* The bound on the number of prepare_packet calls of the host.
HostBounded ==
    /\ host'.node.seq <= MaxEnq /\ host'.num_channels <= MaxAdded
    /\ pv' = pv /\ air' = air

NextHost ==
    \/ \E r \in Ranges, l \in InitLevels, d \in AuxData :
          HostAddChannel(r, l, d) /\ HostBounded
    \/ \E c \in HostChannels, v \in SetValues : HostSet(c, v) /\ HostBounded
    \/ \E c \in HostChannels, d \in Deltas : HostAdjust(c, d) /\ HostBounded
    \/ \E cs \in BOOLEAN, f \in HostFrames : HostRun(cs, f) /\ HostBounded

\* A device running a host.
SpecHost == InitHost /\ [][NextHost]_vars

\* The bound on the number of prepare_packet calls of the controller; pv
\* follows ev.
CtrlBounded ==
    /\ ctrl'.node.seq <= MaxEnq /\ ctrl'.n_channels <= MaxAdded
    /\ pv' = Snapshot /\ air' = air

NextCtrl ==
    \/ \E r \in Ranges, l \in InitLevels, d \in AuxData :
          CtrlAddChannel(r, l, d) /\ CtrlBounded
    \/ \E c \in SyncChannels : CtrlSync(c) /\ CtrlBounded
    \/ \E c \in CtrlChannels, v \in SetValues : CtrlSet(c, v) /\ CtrlBounded
    \/ \E c \in CtrlChannels, d \in CtrlDeltas : CtrlAdjust(c, d) /\ CtrlBounded
    \/ \E cs \in BOOLEAN, f \in CtrlFrames : CtrlRun(cs, f) /\ CtrlBounded
    \/ \E reset \in BOOLEAN : CtrlWakeUp(reset) /\ CtrlBounded

\* A device running a controller.
SpecCtrl == InitCtrl /\ [][NextCtrl]_vars

\* A host that is given one channel and then polled, with status requests
\* for that channel arriving in any pattern and the transport ready or not.
FloodFrames ==
    {NoFrame, Frame(TRUE, 0, RF12_HDR_DST + HostNodeId, Payload(1, 0, 0))}

FloodBounded == host'.node.seq <= MaxFloodEnq /\ pv' = pv /\ air' = air

FloodAdd == HostAddChannel(3, 0, 7) /\ FloodBounded

FloodRun(canSend) == \E f \in FloodFrames : HostRun(canSend, f) /\ FloodBounded

NextFlood == FloodAdd \/ FloodRun(FALSE) \/ FloodRun(TRUE)

\* run is called again and again, and the transport is ready to send
\* infinitely often: a run that finds it ready is not postponed forever.
SpecFlood == InitNet /\ [][NextFlood]_vars /\ WF_vars(FloodRun(TRUE))

\* A host and a controller side by side, each given channels and polled.
\* pv follows ev when the last operation was a run of the host.
PairHostFrames ==
    {NoFrame} \cup BadFrames(RF12_HDR_DST + HostNodeId)
      \cup { Frame(TRUE, 0, RF12_HDR_DST + HostNodeId, Payload(0, 0, 2)),
             Frame(TRUE, 0, RF12_HDR_DST + HostNodeId, Payload(0, 1, 2)),
             Frame(TRUE, 0, RF12_HDR_DST + HostNodeId, Payload(1, 127, 0)) }

PairCtrlFrames ==
    {NoFrame} \cup BadFrames(HostNodeId)
      \cup { Frame(TRUE, 0, HostNodeId, Payload(0, 0, 2)),
             Frame(TRUE, 0, HostNodeId, Payload(0, 1, 2)),
             Frame(TRUE, 0, HostNodeId, Payload(0, 127, 9)) }

PairBounded ==
    /\ host'.node.seq <= MaxPairEnq /\ host'.num_channels <= MaxAdded
    /\ ctrl'.node.seq <= MaxPairEnq /\ ctrl'.n_channels <= MaxAdded
    /\ pv' = IF ev.op = "h_run"
             THEN [ev |-> ev, calls |-> host.calls, log |-> host.node.log]
             ELSE NoSnapshot
    /\ air' = air

NextPair ==
    \/ HostAddChannel(3, 9, 7) /\ PairBounded
    \/ \E cs \in BOOLEAN, f \in PairHostFrames : HostRun(cs, f) /\ PairBounded
    \/ CtrlAddChannel(3, 9, 7) /\ PairBounded
    \/ \E cs \in BOOLEAN, f \in PairCtrlFrames : CtrlRun(cs, f) /\ PairBounded

SpecPair == InitNet /\ [][NextPair]_vars

\* The packet helpers on their own: a (helper, channel, value) triple is
\* drawn, the helper builds the packet (status updates on a node with the
\* host's id, requests on the controller's node), and send_and_recv hands its header and
\* payload bytes to the transport; ev.frame is then the frame on the air.
CodecChannels == 0 .. 127
CodecValues == 0 .. 255
CodecHelpers == {"status_update", "update_request_abs", "update_request_rel"}

InitCodec ==
    /\ host = NoHost
    /\ ctrl = RCN_Controller(CtrlNodeId)
    /\ \E k \in CodecHelpers, c \in CodecChannels, v \in CodecValues :
          ev = Event(k, c, v, NoFrame)
    /\ pv = NoSnapshot
    /\ air = NoAir

CodecBuild ==
    /\ host.node.seq = 0 /\ ctrl.node.seq = 0
    /\ host' = IF ev.op = "status_update"
               THEN [host EXCEPT !.node = send_status_update(@, ev.chan, ev.value)]
               ELSE host
    /\ ctrl' = CASE ev.op = "update_request_abs" ->
                      [ctrl EXCEPT !.node = send_update_request_abs(
                                               @, remote_host, ev.chan, ev.value)]
                 [] ev.op = "update_request_rel" ->
                      [ctrl EXCEPT !.node = send_update_request_rel(
                                               @, remote_host, ev.chan, S8(ev.value))]
                 [] OTHER -> ctrl
    /\ UNCHANGED <<ev, pv, air>>

CodecTransmit ==
    LET n == IF ev.op = "status_update" THEN host.node ELSE ctrl.node
        r == send_and_recv(n, TRUE, NoFrame)
        p == n.send_buf[n.send_buf_done]
    IN  /\ n.send_buf_next # n.send_buf_done
        /\ host' = IF ev.op = "status_update" THEN [host EXCEPT !.node = r.node]
                   ELSE host
        /\ ctrl' = IF ev.op = "status_update" THEN ctrl
                   ELSE [ctrl EXCEPT !.node = r.node]
        /\ ev' = [ev EXCEPT !.frame = Frame(TRUE, 0, p.hdr, p.b)]
        /\ UNCHANGED <<pv, air>>

NextCodec == CodecBuild \/ CodecTransmit

SpecCodec == InitCodec /\ [][NextCodec]_vars

\* A controller that is given up to two channels, sets them and is woken
\* up, with and without a reset of the cache.
WakeBounded == ctrl'.node.seq <= MaxWakeEnq /\ pv' = pv /\ air' = air

NextWake ==
    \/ \E r \in Ranges, l \in InitLevels, d \in AuxData :
          CtrlAddChannel(r, l, d) /\ WakeBounded
    \/ \E c \in CtrlChannels, v \in SetValues : CtrlSet(c, v) /\ WakeBounded
    \/ \E reset \in BOOLEAN : CtrlWakeUp(reset) /\ WakeBounded

SpecWake == InitCtrl /\ [][NextWake]_vars

\* The send queue: a host with channels of range 255 is polled while
\* requests to raise the level by one arrive in any pattern, so that the
\* k-th broadcast enqueued carries its own level.  pv records what
\* rf12_canSend() answered in the last run.
QueueFrames ==
    {NoFrame, Frame(TRUE, 0, RF12_HDR_DST + HostNodeId, Payload(1, 0, 1))}

CanSend(canSend) ==
    [ev |-> Event("canSend", 0, IF canSend THEN 1 ELSE 0, NoFrame),
     calls |-> <<>>, log |-> <<>>]

QueueAdd ==
    /\ HostAddChannel(255, 0, 7)
    /\ host'.node.seq <= MaxQueueEnq /\ pv' = pv /\ air' = air

QueueRun(canSend) ==
    \E f \in QueueFrames :
        /\ HostRun(canSend, f)
        /\ host'.node.seq <= MaxQueueEnq /\ pv' = CanSend(canSend)
        /\ air' = air

NextQueue == QueueAdd \/ QueueRun(FALSE) \/ QueueRun(TRUE)

SpecQueue == InitNet /\ [][NextQueue]_vars

\* A host and a controller connected by the radio, each with one channel
\* of range 3.  The transport is always ready to send; what one of them
\* hands to rf12_sendStart is received by the other, whole and in order,
\* one frame per run: the host's broadcasts by the controller, the
\* controller's packets (all directed to remote_host) by the host.
OnAir(log) ==
    [i \in 1 .. Len(log) |-> Frame(TRUE, 0, log[i].pkt.hdr, log[i].pkt.b)]

Arriving(q) == IF q # <<>> THEN Head(q) ELSE NoFrame

Received(q) == IF q # <<>> THEN Tail(q) ELSE q

ConvHostRun ==
    /\ HostRun(TRUE, Arriving(air.to_host))
    /\ air' = [air EXCEPT !.to_host = Received(@),
                          !.to_ctrl = @ \o OnAir(TxLog(host'.node))]
    /\ pv' = pv

ConvCtrlRun ==
    /\ CtrlRun(TRUE, Arriving(air.to_ctrl))
    /\ air' = [air EXCEPT !.to_ctrl = Received(@),
                          !.to_host = @ \o OnAir(TxLog(ctrl'.node)),
                          !.reset = @ /\ \A i \in DOMAIN ctrl'.calls :
                                           ctrl'.calls[i].channel # 0]
    /\ pv' = pv

ConvHostAdd ==
    /\ HostAddChannel(3, 0, 7)
    /\ host'.num_channels <= MaxAdded
    /\ air' = air /\ pv' = pv

ConvDeltas == {0, 1}

\* An operation of the controller's application that may enqueue a request.
ConvCtrlCall ==
    /\ \/ CtrlAddChannel(3, 9, 7) /\ ctrl'.n_channels <= MaxAdded
       \/ CtrlSync(0)
       \/ CtrlSet(0, 2)
       \/ CtrlAdjust(0, 1)
    /\ ctrl'.node.seq <= MaxConvEnq
    /\ air' = air
    /\ pv' = pv

\* wake_up(true)
ConvCtrlWake ==
    /\ CtrlWakeUp(TRUE)
    /\ air' = [air EXCEPT !.reset = @ \/ ctrl.n_channels > 0]
    /\ pv' = pv

NextConv ==
    \/ ConvHostAdd
    \/ ConvCtrlCall
    \/ ConvCtrlWake
    \/ ConvHostRun
    \/ ConvCtrlRun

\* Any of these calls may come at any time; that both sides keep calling
\* run is a premise of the convergence property, not of the network.
SpecConv == InitHost /\ [][NextConv]_vars

\* Every operation that enqueues, on a host with any of the filters and on
\* a controller; the host's radio delivers requests directed to it.
KindFrames ==
    { NoFrame,
      Frame(TRUE, 0, RF12_HDR_DST + HostNodeId, Payload(0, 0, 2)),
      Frame(TRUE, 0, RF12_HDR_DST + HostNodeId, Payload(1, 0, 255)) }

KindBounded ==
    /\ host'.node.seq <= MaxKindEnq /\ host'.num_channels <= MaxAdded
    /\ ctrl'.node.seq <= MaxKindEnq /\ ctrl'.n_channels <= MaxAdded
    /\ pv' = pv /\ air' = air

NextKind ==
    \/ HostAddChannel(3, 9, 7) /\ KindBounded
    \/ HostSet(0, 2) /\ KindBounded
    \/ HostAdjust(0, -1) /\ KindBounded
    \/ \E f \in KindFrames : HostRun(FALSE, f) /\ KindBounded
    \/ CtrlAddChannel(3, 9, 7) /\ KindBounded
    \/ \E c \in SyncChannels : CtrlSync(c) /\ KindBounded
    \/ CtrlSet(0, 2) /\ KindBounded
    \/ \E d \in ConvDeltas : CtrlAdjust(0, d) /\ KindBounded

SpecKind == InitHost /\ [][NextKind]_vars

(***************************************************************************)
(* Vocabulary of the properties                                            *)
(***************************************************************************)
\* A frame with a valid CRC and a payload of two bytes.
FrameOk(f) == f.avail /\ f.crc = 0 /\ f.len = 2
\* Its fields, read off the wire format of spec section 6.
WireChannel(f) == f.data[1] % 128
WireRelative(f) == f.data[1] >= 128
WireUnsigned(f) == f.data[2]
WireSigned(f) == IF f.data[2] >= 128 THEN f.data[2] - 256 ELSE f.data[2]
WireDirected(hdr) == (hdr \div 64) % 2 = 1

Clamp(lo, x, hi) == IF x < lo THEN lo ELSE IF x > hi THEN hi ELSE x

\* pkt is a status-update broadcast of this host for channel c carrying v.
IsStatusUpdate(pkt, c, v) ==
    /\ ~WireDirected(pkt.hdr)
    /\ pkt.hdr % 32 = host.node.rf12_node
    /\ pkt.b = <<c, v>>

\* pkt is a request directed to remote_host for channel c: relative flag
\* rel, value byte v.
IsRequest(pkt, rel, c, v) ==
    /\ WireDirected(pkt.hdr)
    /\ pkt.hdr % 32 = remote_host
    /\ pkt.b = <<(IF rel THEN 128 ELSE 0) + c, v % 256>>

\* The last operation was a run of the host that received a valid packet
\* for a known channel.
HostAccepted ==
    /\ ev.op = "h_run"
    /\ FrameOk(ev.frame)
    /\ WireChannel(ev.frame) < host.num_channels

(***************************************************************************)
(* C1: every packet the host's run receives with valid CRC, length 2 and a *)
(* known channel makes that run enqueue exactly one status-update          *)
(* broadcast for the channel (relative flag clear) carrying the stored     *)
(* level, whether or not the level changed, whatever the filter returned.  *)
(***************************************************************************)
C1_OneBroadcastPerRequest ==
    HostAccepted =>
        /\ Len(EnqLog(host.node)) = 1
        /\ IsStatusUpdate(EnqLog(host.node)[1].pkt, WireChannel(ev.frame),
                          host.level[WireChannel(ev.frame)])

\* A request was accepted, the filter refused the proposed level and the
\* level did not change.
C1_Witness ==
    /\ HostAccepted
    /\ Len(host.calls) = 1
    /\ host.calls[1].ret = host.calls[1].old_level
    /\ host.calls[1].ret # host.calls[1].new_level
    /\ Len(EnqLog(host.node)) = 1

(***************************************************************************)
(* C2: an enqueue made when the producer index would reach the consumer    *)
(* index rejects the new packet or evicts only the oldest one; no enqueue  *)
(* makes other enqueued, untransmitted packets disappear.  Stated on the   *)
(* host's node: the packets that were enqueued and are neither transmitted *)
(* nor still queued number at most one per overrun.                        *)
(***************************************************************************)
PendingCount(n) == (n.send_buf_next - n.send_buf_done) % SEND_BUF_SIZE

PendingIds(n) ==
    { n.send_buf[(n.send_buf_done + i) % SEND_BUF_SIZE].id :
        i \in 0 .. PendingCount(n) - 1 }

SentIds(n) == { n.sent[i] : i \in 1 .. Len(n.sent) }

LostIds(n) == (1 .. n.seq) \ (SentIds(n) \cup PendingIds(n))

C2_NoSilentLoss == Cardinality(LostIds(host.node)) <= host.node.oops

(***************************************************************************)
(* C3: for every host channel, 0 <= level[channel] <= range[channel] in    *)
(* every reachable state, for every filter.                                *)
(***************************************************************************)
C3_HostLevelInRange ==
    \A c \in HostChannels :
        c < host.num_channels => 0 <= host.level[c] /\ host.level[c] <= host.range[c]

(***************************************************************************)
(* C4: when run is called repeatedly and the transport is ready to send    *)
(* infinitely often, the broadcast produced for an accepted request is     *)
(* eventually transmitted, exactly once.                                   *)
(***************************************************************************)
Transmissions(n, id) == Cardinality({ i \in 1 .. Len(n.sent) : n.sent[i] = id })

C4_RequestEventuallyBroadcast ==
    \A id \in 1 .. MaxFloodEnq + 1 :
        /\ [](Transmissions(host.node, id) <= 1)
        /\ (HostAccepted /\ EnqLog(host.node) # <<>>
                /\ EnqLog(host.node)[1].pkt.id = id)
             ~> (Transmissions(host.node, id) = 1)

(***************************************************************************)
(* C5: the controller's run changes a cached level and invokes the         *)
(* notifier only for a received broadcast with the relative flag clear and *)
(* a known channel; a directed packet or a relative one changes nothing.   *)
(***************************************************************************)
C5_OnlyBroadcastsUpdate ==
    [][ (ev'.op = "c_run" /\ (ctrl'.level # ctrl.level \/ ctrl'.calls # <<>>))
          => /\ FrameOk(ev'.frame)
             /\ ~WireDirected(ev'.frame.hdr)
             /\ ~WireRelative(ev'.frame)
             /\ WireChannel(ev'.frame) < ctrl.n_channels ]_vars

(***************************************************************************)
(* C7: a request received for a known channel c with old level L and range *)
(* R stores filter(c, R, aux, L, candidate), candidate being               *)
(* clamp(0, relative ? L + signed value : unsigned value, R); the filter's *)
(* result is stored as it is and the one broadcast carries it.             *)
(***************************************************************************)
C7_Candidate(f, L, R) ==
    Clamp(0, IF WireRelative(f) THEN L + WireSigned(f) ELSE WireUnsigned(f), R)

C7_RequestStoresFiltered ==
    [][ (ev'.op = "h_run" /\ FrameOk(ev'.frame)
            /\ WireChannel(ev'.frame) < host.num_channels)
          => LET c == WireChannel(ev'.frame)
                 L == host.level[c]
                 R == host.range[c]
                 cand == C7_Candidate(ev'.frame, L, R)
                 stored == handler_fn(host.handler, c, R, host.data[c], L, cand)
             IN  /\ host'.calls = << [channel |-> c, range |-> R,
                                      data |-> host.data[c], old_level |-> L,
                                      new_level |-> cand, ret |-> stored] >>
                 /\ host'.level = [host.level EXCEPT ![c] = stored]
                 /\ Len(EnqLog(host'.node)) = 1
                 /\ EnqLog(host'.node)[1].pkt.b = <<c, stored>> ]_vars

\* A relative request of +2 was received, the filter adopted the candidate
\* old level + 2, and that level was stored and broadcast.
C7_Witness ==
    /\ HostAccepted
    /\ WireRelative(ev.frame) /\ WireSigned(ev.frame) = 2
    /\ Len(host.calls) = 1
    /\ host.calls[1].new_level = host.calls[1].old_level + 2
    /\ host.calls[1].ret = host.calls[1].new_level
    /\ host.level[WireChannel(ev.frame)] = host.calls[1].ret
    /\ EnqLog(host.node)[1].pkt.b[2] = host.calls[1].ret

(***************************************************************************)
(* C6: for host and controller alike, a received packet whose channel id   *)
(* is not below the number of channels added changes no range, level or    *)
(* aux entry, invokes neither filter nor notifier and enqueues nothing.    *)
(***************************************************************************)
C6_UnknownChannelDropped ==
    [][ /\ (ev'.op = "h_run" /\ FrameOk(ev'.frame)
               /\ WireChannel(ev'.frame) >= host.num_channels)
             => /\ host'.range = host.range
                /\ host'.level = host.level
                /\ host'.data = host.data
                /\ host'.num_channels = host.num_channels
                /\ host'.calls = <<>>
                /\ EnqLog(host'.node) = <<>>
        /\ (ev'.op = "c_run" /\ FrameOk(ev'.frame)
               /\ WireChannel(ev'.frame) >= ctrl.n_channels)
             => /\ ctrl'.range = ctrl.range
                /\ ctrl'.level = ctrl.level
                /\ ctrl'.data = ctrl.data
                /\ ctrl'.n_channels = ctrl.n_channels
                /\ ctrl'.calls = <<>>
                /\ EnqLog(ctrl'.node) = <<>> ]_vars

\* The host, with a channel added, received a packet for an unknown channel;
\* then the controller, with a channel added, did.
C6_Witness ==
    /\ host.num_channels >= 1
    /\ pv.ev.op = "h_run" /\ FrameOk(pv.ev.frame)
    /\ WireChannel(pv.ev.frame) >= host.num_channels
    /\ ctrl.n_channels >= 1
    /\ ev.op = "c_run" /\ FrameOk(ev.frame)
    /\ WireChannel(ev.frame) >= ctrl.n_channels

(***************************************************************************)
(* C8: after the controller's set(c, X) with 0 <= X <= range[c], directly  *)
(* followed by a run that receives a status-update broadcast for c         *)
(* carrying X: get(c) = X, the notifier was invoked exactly twice for c,   *)
(* with (previous level, X) and then (X, X), and the set enqueued exactly  *)
(* one directed absolute update request carrying X.                        *)
(***************************************************************************)
C8_SetThenConfirm ==
    /\ pv.ev.op = "c_set"
    /\ 0 <= pv.ev.value /\ pv.ev.value <= ctrl.range[pv.ev.chan]
    /\ ev.op = "c_run" /\ FrameOk(ev.frame)
    /\ ~WireDirected(ev.frame.hdr) /\ ~WireRelative(ev.frame)
    /\ WireChannel(ev.frame) = pv.ev.chan
    /\ WireUnsigned(ev.frame) = pv.ev.value

C8_SetConfirmedTwice ==
    /\ [](C8_SetThenConfirm =>
            LET c == pv.ev.chan
                X == pv.ev.value
            IN  /\ ctrl.level[c] = X
                /\ Len(pv.calls) = 1
                /\ pv.calls[1].channel = c /\ pv.calls[1].new_level = X
                /\ Len(ctrl.calls) = 1
                /\ ctrl.calls[1].channel = c
                /\ ctrl.calls[1].old_level = X /\ ctrl.calls[1].new_level = X
                /\ Len(EnqLog([log |-> pv.log])) = 1
                /\ IsRequest(EnqLog([log |-> pv.log])[1].pkt, FALSE, c, X))
    /\ [][ev'.op = "c_set" =>
            /\ Len(ctrl'.calls) = 1
            /\ ctrl'.calls[1].old_level = ctrl.level[ev'.chan]]_vars

\* set(c, 2) on a channel of range 3 or more whose level was not 2, then a
\* run that received the broadcast "channel c is at 2".
C8_Witness ==
    /\ C8_SetThenConfirm
    /\ pv.ev.value = 2
    /\ pv.calls[1].old_level # 2
    /\ ctrl.level[pv.ev.chan] = 2

(***************************************************************************)
(* C9: the controller's adjust(c, delta) enqueues exactly one directed     *)
(* relative update request carrying d = clamp(-128, delta, 127) when       *)
(* d # 0 and nothing when d = 0; either way the notifier is invoked once   *)
(* and the cache is updated.                                               *)
(***************************************************************************)
C9_AdjustSendsClampedDelta ==
    ev.op = "c_adjust" =>
        LET c == ev.chan
            d == Clamp(-128, ev.value, 127)
            q == EnqLog(ctrl.node)
        IN  /\ d # 0 => Len(q) = 1 /\ IsRequest(q[1].pkt, TRUE, c, d)
            /\ d = 0 => q = <<>>
            /\ Len(ctrl.calls) = 1
            /\ ctrl.calls[1].channel = c
            /\ ctrl.level[c] = ctrl.calls[1].new_level

\* The levels level + delta may leave in the cache: the sum clamped to the
\* range, and, when the sum is beyond the range of int, 0, the range or
\* the low byte of the wrapped sum.
C9_Levels(old, delta, max) ==
    IF int_overflow(old, delta)
    THEN {0, max, U8(int_add(old, delta))}
    ELSE {Clamp(0, old + delta, max)}

\* What holds of every adjust that returns: the request and the single
\* notification of C9, with the cache at one of C9_Levels.
C9_AdjustThatReturns ==
    (ev.op = "c_adjust" /\ ~ctrl.aborted) =>
        /\ C9_AdjustSendsClampedDelta
        /\ ctrl.level[ev.chan] \in C9_Levels(ctrl.calls[1].old_level, ev.value,
                                             ctrl.range[ev.chan])

\* adjust(c, INT_MAX) on a channel at a level above 0 that returned with
\* the low byte of the wrapped sum in the cache: the request carries +127.
C9_ReturnedLowByte ==
    /\ ev.op = "c_adjust" /\ ev.value = IntMax /\ ~ctrl.aborted
    /\ Len(EnqLog(ctrl.node)) = 1
    /\ EnqLog(ctrl.node)[1].pkt.b[2] = 127
    /\ ctrl.calls[1].old_level = 3
    /\ ctrl.level[ev.chan] = 2

\* adjust(c, INT_MAX) on a channel at a level above 0 in a build that traps
\* on the overflow: nothing notified, nothing enqueued, the cache as it was.
C9_Trapped ==
    /\ ev.op = "c_adjust" /\ ev.value = IntMax /\ ctrl.aborted
    /\ ctrl.calls = <<>> /\ EnqLog(ctrl.node) = <<>>
    /\ ctrl.level[ev.chan] > 0

(***************************************************************************)
(* C10: a status request is the packet of a relative update request with   *)
(* delta 0, and a host that receives it for a known channel invokes the    *)
(* filter with new_level equal to old_level and enqueues exactly one       *)
(* broadcast carrying the stored level.                                    *)
(***************************************************************************)
C10_StatusRequestIsNoChange ==
    /\ \A c \in {0, 1, 127} :
          send_status_request(host.node, remote_host, c)
              = send_update_request_rel(host.node, remote_host, c, 0)
    /\ (HostAccepted /\ WireRelative(ev.frame) /\ WireSigned(ev.frame) = 0)
          => /\ Len(host.calls) = 1
             /\ host.calls[1].new_level = host.calls[1].old_level
             /\ Len(EnqLog(host.node)) = 1
             /\ IsStatusUpdate(EnqLog(host.node)[1].pkt, WireChannel(ev.frame),
                               host.level[WireChannel(ev.frame)])

(***************************************************************************)
(* C11: for every relative flag, channel in 0..127 and value in 0..255     *)
(* (read as -128..127 when relative), a packet built by send_status_update,*)
(* send_update_request_abs or send_update_request_rel, transmitted as its  *)
(* two payload bytes and copied into a RecvPacket, reads back the same     *)
(* relative(), channel() and abs_level() / rel_level(); bcast() is false   *)
(* for the directed packets and true for the broadcast.                    *)
(***************************************************************************)
C11_Received == send_and_recv(RCN_Node(OtherNodeId), FALSE, ev.frame)

C11_EncodeDecodeRoundTrip ==
    (ev.op \in CodecHelpers /\ ev.frame.avail) =>
        LET r == C11_Received
            p == r.recvd
        IN  /\ r.ok
            /\ channel(p) = ev.chan
            /\ relative(p) = (ev.op = "update_request_rel")
            /\ ev.op = "update_request_rel" =>
                  rel_level(p) = (IF ev.value >= 128 THEN ev.value - 256 ELSE ev.value)
            /\ ev.op # "update_request_rel" => abs_level(p) = ev.value
            /\ bcast(p) = (ev.op = "status_update")

\* A relative request for channel 127 with adjustment -128 went over the
\* air and was read back.
C11_Witness ==
    /\ ev.op = "update_request_rel" /\ ev.chan = 127 /\ ev.value = 128
    /\ ev.frame.avail
    /\ rel_level(C11_Received.recvd) = -128
    /\ channel(C11_Received.recvd) = 127

(***************************************************************************)
(* C12: wake_up(true) sets every cached level of the controller to 0 and   *)
(* invokes the notifier exactly once per channel, in channel order, with   *)
(* (previous level, 0); wake_up(false) changes no cached level and invokes *)
(* no notifier; neither enqueues a packet.                                 *)
(***************************************************************************)
C12_WakeUpResetsCache ==
    [][ ev'.op = "c_wake" =>
          /\ EnqLog(ctrl'.node) = <<>>
          /\ ctrl'.node.seq = ctrl.node.seq
          /\ ctrl'.node.send_buf_next = ctrl.node.send_buf_next
          /\ ctrl'.n_channels = ctrl.n_channels
          /\ ev'.value = 1 =>
                /\ \A c \in CtrlChannels :
                      c < ctrl.n_channels => ctrl'.level[c] = 0
                /\ Len(ctrl'.calls) = ctrl.n_channels
                /\ \A i \in 1 .. ctrl.n_channels :
                      /\ ctrl'.calls[i].channel = i - 1
                      /\ ctrl'.calls[i].old_level = ctrl.level[i - 1]
                      /\ ctrl'.calls[i].new_level = 0
          /\ ev'.value = 0 =>
                /\ ctrl'.level = ctrl.level
                /\ ctrl'.calls = <<>> ]_vars

\* wake_up(true) on a controller with two channels cached at different
\* non-zero levels: both are 0 and the notifier was told so, channel 0 first.
C12_Witness ==
    /\ ev.op = "c_wake" /\ ev.value = 1
    /\ ctrl.n_channels = 2
    /\ Len(ctrl.calls) = 2
    /\ ctrl.calls[1].channel = 0 /\ ctrl.calls[1].old_level = 255
    /\ ctrl.calls[2].channel = 1 /\ ctrl.calls[2].old_level = 2
    /\ ctrl.level[0] = 0 /\ ctrl.level[1] = 0

(***************************************************************************)
(* C13: each send_and_recv call transmits at most one queued packet, and   *)
(* transmits one exactly when the producer index differs from the consumer *)
(* index and rf12_canSend is true; over any sequence of calls the packets  *)
(* transmitted appear in the order they were enqueued and none is          *)
(* transmitted more than once.                                             *)
(***************************************************************************)
C13_OneInOrderNoRetry ==
    /\ [](\A i, j \in 1 .. Len(host.node.sent) :
             i < j => host.node.sent[i] < host.node.sent[j])
    /\ [][ IF ev'.op = "h_run"
           THEN LET n == host.node
                    tx == TxLog(host'.node)
                IN  /\ Len(tx) <= 1
                    /\ (Len(tx) = 1) <=>
                          (n.send_buf_next # n.send_buf_done /\ pv'.ev.value = 1)
                    /\ Len(tx) = 1 =>
                          /\ tx[1].pkt = n.send_buf[n.send_buf_done]
                          /\ host'.node.sent = Append(n.sent, tx[1].pkt.id)
                    /\ Len(tx) = 0 => host'.node.sent = n.sent
           ELSE host'.node.sent = host.node.sent ]_vars

\* A run with the transport ready transmitted one packet and left two or
\* more queued, after the queue had been overrun once.
C13_Witness ==
    /\ ev.op = "h_run" /\ pv.ev.value = 1
    /\ Len(TxLog(host.node)) = 1
    /\ PendingCount(host.node) >= 2
    /\ Len(host.node.sent) >= 2
    /\ host.node.oops >= 1

(***************************************************************************)
(* C14: when the received frame has a CRC mismatch or a payload length     *)
(* other than 2, send_and_recv returns false, and the host's or the        *)
(* controller's run then changes no table entry, invokes no filter or      *)
(* notifier and enqueues no packet.                                        *)
(***************************************************************************)
C14_Malformed(f) == f.avail /\ (f.crc # 0 \/ f.len # 2)

C14_MalformedDropped ==
    [][ /\ (ev'.op = "h_run" /\ C14_Malformed(ev'.frame))
             => /\ \A cs \in BOOLEAN :
                      ~send_and_recv(host.node, cs, ev'.frame).ok
                /\ host'.range = host.range
                /\ host'.level = host.level
                /\ host'.data = host.data
                /\ host'.num_channels = host.num_channels
                /\ host'.calls = <<>>
                /\ EnqLog(host'.node) = <<>>
                /\ host'.node.send_buf_next = host.node.send_buf_next
        /\ (ev'.op = "c_run" /\ C14_Malformed(ev'.frame))
             => /\ \A cs \in BOOLEAN :
                      ~send_and_recv(ctrl.node, cs, ev'.frame).ok
                /\ ctrl'.range = ctrl.range
                /\ ctrl'.level = ctrl.level
                /\ ctrl'.data = ctrl.data
                /\ ctrl'.n_channels = ctrl.n_channels
                /\ ctrl'.calls = <<>>
                /\ EnqLog(ctrl'.node) = <<>>
                /\ ctrl'.node.send_buf_next = ctrl.node.send_buf_next ]_vars

\* The host, with channel 0 added, received a frame for channel 0 with a
\* CRC mismatch; then the controller, with channel 0 added, received a
\* frame of three bytes.
C14_Witness ==
    /\ host.num_channels >= 1
    /\ pv.ev.op = "h_run" /\ pv.ev.frame.avail /\ pv.ev.frame.crc # 0
    /\ pv.ev.frame.len = 2 /\ WireChannel(pv.ev.frame) = 0
    /\ ctrl.n_channels >= 1
    /\ ev.op = "c_run" /\ ev.frame.avail /\ ev.frame.crc = 0
    /\ ev.frame.len = 3

(***************************************************************************)
(* C15: for every controller channel, at every moment the caller or the    *)
(* notifier can observe (the old_level argument the notifier is given      *)
(* included), 0 <= level[channel] <= range[channel], after any sequence of *)
(* add_channel, set, adjust, run and wake_up calls, add_channel with an    *)
(* initial level above the range included.                                 *)
(***************************************************************************)
C15_CtrlLevelInRange ==
    /\ \A c \in CtrlChannels :
          c < ctrl.n_channels =>
              0 <= ctrl.level[c] /\ ctrl.level[c] <= ctrl.range[c]
    /\ \A i \in 1 .. Len(ctrl.calls) :
          /\ 0 <= ctrl.calls[i].old_level
          /\ ctrl.calls[i].old_level <= ctrl.calls[i].range
          /\ 0 <= ctrl.calls[i].new_level
          /\ ctrl.calls[i].new_level <= ctrl.calls[i].range

(***************************************************************************)
(* C16: the host's add_channel(range, initialLevel, aux) invokes the       *)
(* filter exactly once with old_level and new_level both equal to          *)
(* initialLevel, stores the filter's return value as the channel's level   *)
(* and enqueues exactly one status-update broadcast carrying it.           *)
(***************************************************************************)
C16_AddChannelSeedsFilter ==
    ev.op = "h_add" =>
        /\ Len(host.calls) = 1
        /\ host.calls[1].channel = ev.chan
        /\ host.calls[1].old_level = ev.value
        /\ host.calls[1].new_level = ev.value
        /\ host.level[ev.chan] = host.calls[1].ret
        /\ Len(EnqLog(host.node)) = 1
        /\ IsStatusUpdate(EnqLog(host.node)[1].pkt, ev.chan, host.calls[1].ret)

(***************************************************************************)
(* C17: a host changes a channel level and emits a broadcast only in       *)
(* response to a directed packet: a received broadcast (header destination *)
(* bit clear), such as a status update of another host of the group, never *)
(* changes the host's level, never invokes the filter and never makes the  *)
(* host enqueue a broadcast.                                               *)
(***************************************************************************)
C17_HostIgnoresBroadcasts ==
    [][ (ev'.op = "h_run" /\ FrameOk(ev'.frame)
            /\ ~WireDirected(ev'.frame.hdr))
          => /\ host'.level = host.level
             /\ host'.calls = <<>>
             /\ EnqLog(host'.node) = <<>> ]_vars

(***************************************************************************)
(* C18: convergence.  With one host and one controller whose channels have *)
(* equal ranges, lossless in-order delivery, a transport ready to send and *)
(* no queue overrun, once the controller stops calling set/adjust/sync and *)
(* both sides keep calling run, the controller's get(c) eventually equals  *)
(* the host's level for c and stays equal.                                 *)
(* As claimed it fails in two ways.  wake_up(true) resets the cache and    *)
(* asks the host nothing: when no status update for c is still to come,    *)
(* the cache stays at 0 whatever the host's level.  And a host level above *)
(* the range (C3) is never equalled by the cache, which the controller     *)
(* keeps within the range.  It holds for a host level within the range     *)
(* when the controller received a status update for c after its last       *)
(* wake_up(true).                                                          *)
(***************************************************************************)
C18_Quiet == ev.op \in {"h_run", "c_run"}

\* The controller's application has stopped calling set, adjust and sync.
C18_Stopped == ev.op \notin {"c_set", "c_adjust", "c_sync"}

C18_Agree ==
    (host.num_channels > 0 /\ ctrl.n_channels > 0) =>
        ctrl.level[0] = host.level[0]

\* The host's level is above the range of its channel.
C18_AboveRange == host.num_channels > 0 /\ host.level[0] > host.range[0]

\* Both sides keep calling run: each is the last operation again and again.
C18_KeepRunning == []<>(ev.op = "h_run") /\ []<>(ev.op = "c_run")

\* Nothing is queued on either side and nothing is on the air: further runs
\* send and receive nothing.
C18_AtRest ==
    /\ C18_Quiet
    /\ PendingCount(host.node) = 0 /\ PendingCount(ctrl.node) = 0
    /\ air.to_host = <<>> /\ air.to_ctrl = <<>>

C18_ConvergesInRange == C18_AtRest => (C18_Agree \/ C18_AboveRange)

C18_ConvergesWithoutReset == C18_AtRest => (C18_Agree \/ air.reset)

C19_Twin ==
    [ RCN_Host(HostNodeId, "accept",
               [ctrl.level EXCEPT ![ev.chan] = ctrl.calls[1].old_level])
        EXCEPT !.num_channels = ctrl.n_channels,
               !.range = ctrl.range,
               !.data = ctrl.data ]

\* The request the call enqueued, as the host's radio delivers it.
C19_Request ==
    Frame(TRUE, 0, EnqLog(ctrl.node)[1].pkt.hdr, EnqLog(ctrl.node)[1].pkt.b)

C19_OptimisticAgrees ==
    (ev.op \in {"c_set", "c_adjust"} /\ EnqLog(ctrl.node) # <<>>) =>
        RCN_Host_run(C19_Twin, FALSE, C19_Request).level[ev.chan]
            = ctrl.level[ev.chan]

(***************************************************************************)
(* C20: in every reachable state send_buf_next and send_buf_done are in    *)
(* 0..15, and send_buf_done advances only inside send_and_recv, by one,    *)
(* when it differs from send_buf_next.  As long as no enqueue has happened *)
(* while 15 packets were pending, the number of pending packets is         *)
(* (send_buf_next - send_buf_done) mod 16, and every enqueued packet is    *)
(* transmitted exactly once with the contents it was enqueued with: it is  *)
(* either still queued, unchanged, or was handed to the transport once,    *)
(* as enqueued, and when nothing is pending all have been.                 *)
(***************************************************************************)
C20_QueueInvariant ==
    /\ [](LET n == host.node
          IN  /\ n.send_buf_next \in 0 .. 15
              /\ n.send_buf_done \in 0 .. 15
              /\ n.oops = 0 =>
                    /\ n.seq - Len(n.sent) = PendingCount(n)
                    /\ n.sent = [i \in 1 .. Len(n.sent) |-> i]
                    /\ PendingIds(n) = Len(n.sent) + 1 .. n.seq
                    /\ LostIds(n) = {})
    /\ [][ LET n == host.node
               m == host'.node
           IN  /\ m.send_buf_done # n.send_buf_done =>
                    /\ ev'.op = "h_run"
                    /\ n.send_buf_next # n.send_buf_done
                    /\ m.send_buf_done = (n.send_buf_done + 1) % 16
               /\ m.oops = 0 =>
                    /\ \A i \in 0 .. PendingCount(n) - 1 :
                          m.send_buf[(n.send_buf_done + i) % 16]
                              = n.send_buf[(n.send_buf_done + i) % 16]
                    /\ \A i \in 1 .. Len(TxLog(m)) :
                          TxLog(m)[i].pkt = n.send_buf[n.send_buf_done]
                    /\ \A i \in 1 .. Len(EnqLog(m)) :
                          /\ EnqLog(m)[i].pkt = m.send_buf[n.send_buf_next]
                          /\ EnqLog(m)[i].pkt.id = n.seq + 1
                          /\ EnqLog(m)[i].pkt.b[2] =
                                host'.level[EnqLog(m)[i].pkt.b[1]] ]_vars

\* The producer index has wrapped around behind the consumer index without
\* an overrun, and a run has just transmitted one of the queued packets.
C20_Witness ==
    /\ host.node.oops = 0
    /\ host.node.seq >= 17
    /\ host.node.send_buf_next < host.node.send_buf_done
    /\ ev.op = "h_run" /\ Len(TxLog(host.node)) = 1
    /\ PendingCount(host.node) >= 2

(***************************************************************************)
(* C21: every packet a host ever enqueues is a broadcast with the relative *)
(* flag clear (header = own node id, destination bit clear), and every     *)
(* packet a controller ever enqueues is directed (destination bit set) to  *)
(* remote_host = 1; add_channel and sync on the controller each enqueue    *)
(* exactly one status request (relative, value 0) for the given channel    *)
(* (its 7 bits on the wire).                                               *)
(***************************************************************************)
C21_Written(n) == { i \in Slots : n.send_buf[i].id # 0 }

C21_PacketKinds ==
    /\ \A i \in C21_Written(host.node) :
          LET p == host.node.send_buf[i]
          IN  /\ p.hdr = host.node.rf12_node
              /\ ~WireDirected(p.hdr)
              /\ p.b[1] < 128
    /\ \A i \in C21_Written(ctrl.node) :
          LET p == ctrl.node.send_buf[i]
          IN  /\ WireDirected(p.hdr)
              /\ p.hdr = 64 + remote_host
              /\ remote_host = 1
    /\ ev.op \in {"c_add", "c_sync"} =>
          /\ Len(EnqLog(ctrl.node)) = 1
          /\ IsRequest(EnqLog(ctrl.node)[1].pkt, TRUE, ev.chan % 128, 0)

\* The host has enqueued its broadcast for add_channel and one in answer to
\* a request; the controller has enqueued the status request of add_channel
\* and has just enqueued the one of sync(0).
C21_Witness ==
    /\ host.node.seq = 2 /\ Len(host.calls) = 1
    /\ ctrl.node.seq = 2
    /\ ev.op = "c_sync" /\ ev.chan = 0
    /\ ctrl.node.send_buf[1].b = <<128, 0>>
    /\ host.node.send_buf[1].hdr = 1

====
